---------------------------- MODULE Spec2Model ----------------------------
(***************************************************************************)
(* The client-side upload orchestrator of nextjs-gcs-file-uploader         *)
(* (src/hooks/use-file-upload.ts): the queue of upload items, the worker   *)
(* pool started by every addFiles call, the per-item pipeline              *)
(* (grant -> transfer -> report), the counting stream, and the effect      *)
(* that notifies the uploaded-files observer.                              *)
(*                                                                         *)
(* One step of the model is one turn of the JavaScript event loop: a user  *)
(* action, the arrival of one network response, the arrival of one chunk   *)
(* of the file's byte stream, or one committed render.  Everything the     *)
(* code runs before it next waits for the network or for the file (the     *)
(* continuations after an await that is already settled included) belongs *)
(* to the same step.                                                       *)
(*                                                                         *)
(* Text is modelled as a sequence of tokens: "" is << >>, a blank is the   *)
(* token " ".  An optional field is << >> (undefined) or <<value>>.        *)
(***************************************************************************)
EXTENDS Integers, Sequences, FiniteSets, TLC

\* ------------------------------------------------------------------ bounds

\* Files enqueued over a whole run (all addFiles calls together) under Spec,
\* under SpecNotify and under SpecItem.
MaxFiles == 2

NotifyFiles == 2

ItemFiles == 1

\* Files enqueued over a whole run under SpecPreview and SpecClear.
PreviewFiles == 2

\* Files enqueued over a whole run under SpecPool.
PoolFiles == 3

\* Files enqueued over a whole run under SpecForm.
FormFiles == 2

\* ------------------------------------------------------------ environment

\* The values of the maxParallelUploads option the model is run with.
ParallelChoices == {1, 2}

\* The local files the user can pick: an image of 2 bytes and an empty file
\* without a MIME type.
Files ==
  { [name |-> <<"a.png">>, type |-> <<"image/", "png">>, size |-> 2],
    [name |-> <<"notes">>, type |-> << >>, size |-> 0] }

\* Larger files, for the counting stream.
StreamedFiles ==
  { [name |-> <<"a.png">>, type |-> <<"image/", "png">>, size |-> 11],
    [name |-> <<"b.txt">>, type |-> <<"text/", "plain">>, size |-> 7],
    [name |-> <<"notes">>, type |-> << >>, size |-> 0] }

\* What the runtime offers: File.stream(), and fetch with a streamed body.
Runtimes ==
  { [fileStream |-> TRUE, duplex |-> TRUE],
    [fileStream |-> TRUE, duplex |-> FALSE],
    [fileStream |-> FALSE, duplex |-> FALSE] }

\* Non-success answers of the signing endpoint: status line and parsed body
\* (<< >>: the body is not JSON or has no error string).
GrantFailures ==
  { [status |-> 401, statusText |-> <<"Unauthorized">>,
     body |-> << <<"Missing authentication context">> >>],
    [status |-> 500, statusText |-> <<"Internal Server Error">>,
     body |-> << <<" ", " ">> >>],
    [status |-> 502, statusText |-> <<"Bad Gateway">>, body |-> << >>] }

\* Non-success statuses of the object store.
TransferFailures == {403}

\* What a rejected fetch is rejected with: the runtime's TypeError, or a
\* value that is no Error.
Thrown ==
  { [isError |-> TRUE, message |-> <<"Failed to fetch">>],
    [isError |-> FALSE, message |-> << >>] }

\* The identities of the observer function a render may pass; 0 is undefined.
Observers == {0, 1, 2}

\* The x-user-id header of a request to the signing endpoint: absent,
\* blank, padded, plain.
Headers == { << >>, << <<" ">> >>, << <<" ", "u1", " ">> >>, << <<"u1">> >> }

\* A field of the request's JSON body: absent, or a value that is a string
\* of so many characters or something else.
FileNameFields ==
  { << >>,
    <<[isString |-> FALSE, chars |-> 0, text |-> << >>]>>,
    <<[isString |-> TRUE, chars |-> 0, text |-> << >>]>>,
    <<[isString |-> TRUE, chars |-> 5, text |-> <<"a.png">>]>>,
    <<[isString |-> TRUE, chars |-> 256, text |-> <<"long">>]>> }

ContentTypeFields ==
  { << >>, <<[isString |-> TRUE, chars |-> 9, text |-> <<"image/png">>]>> }

\* The bodies of a request: not JSON, JSON that is no object, an object.
Bodies ==
  { [kind |-> "malformed", isObject |-> FALSE, fileName |-> << >>, contentType |-> << >>],
    [kind |-> "json", isObject |-> FALSE, fileName |-> << >>, contentType |-> << >>] }
  \cup { [kind |-> "json", isObject |-> TRUE, fileName |-> f, contentType |-> c] :
           f \in FileNameFields, c \in ContentTypeFields }

Requests == { [header |-> h, body |-> b] : h \in Headers, b \in Bodies }

\* What the endpoint's process finds: the three environment variables, the
\* service account key, and the signing call of the storage client.
ServerConfigs ==
  { [env |-> e, key |-> k, signing |-> g] :
      e \in {"ok", "missing"}, k \in {"ok", "notJson", "badShape"},
      g \in {"ok", "throws"} }

\* ----------------------------------------------------------------- helpers

Min(a, b) == IF a < b THEN a ELSE b

Max(a, b) == IF a > b THEN a ELSE b

\* The identifiers the model can hand out.
Ids ==
  1..Max(Max(Max(MaxFiles, NotifyFiles), Max(Max(ItemFiles, PreviewFiles), PoolFiles)),
         FormFiles)

\* Math.round of a non-negative quotient n / d.
Round(n, d) == (2 * n + d) \div (2 * d)

Digit == <<"0", "1", "2", "3", "4", "5", "6", "7", "8", "9">>

\* The decimal text of a number, as template literals print it.
RECURSIVE ToStr(_)
ToStr(n) ==
  IF n < 10 THEN <<Digit[n + 1]>> ELSE ToStr(n \div 10) \o <<Digit[(n % 10) + 1]>>

\* String.prototype.trim over token text.
RECURSIVE TrimLeft(_)
TrimLeft(s) ==
  IF s # << >> /\ Head(s) = " " THEN TrimLeft(Tail(s)) ELSE s

RECURSIVE TrimRight(_)
TrimRight(s) ==
  IF s # << >> /\ s[Len(s)] = " " THEN TrimRight(SubSeq(s, 1, Len(s) - 1)) ELSE s

Trim(s) == TrimRight(TrimLeft(s))

\* Array.prototype.join.
RECURSIVE Join(_, _)
Join(parts, sep) ==
  IF parts = << >> THEN << >>
  ELSE IF Len(parts) = 1 THEN parts[1]
  ELSE parts[1] \o sep \o Join(Tail(parts), sep)

DEFAULT_CONTENT_TYPE == <<"application/octet-stream">>

\* mutant: the identifier is a clock reading that two calls can share.
createUploadIdFromClock(n) == (n + 1) \div 2

\* crypto.randomUUID(): the n-th identifier handed out.
createUploadId(n) == n

\* URL.createObjectURL(file) for the item with this id.
PreviewUrlOf(id) == <<"blob:", Digit[id + 1]>>

\* The object name and public URL the signing endpoint builds for a request.
ObjectNameOf(id) == <<"uploads/u/", Digit[id + 1]>>

PublicUrlOf(objectName) == <<"https://storage.googleapis.com/b/">> \o objectName

SignedFor(id) ==
  [objectName |-> ObjectNameOf(id), publicUrl |-> PublicUrlOf(ObjectNameOf(id))]

\* ------------------------------------------------------------- pure code

\* mutant: the body's error string is not trimmed before it is measured.
readApiErrorUntrimmed(response) ==
  IF response.body # << >> /\ Len(response.body[1]) > 0
  THEN response.body[1]
  ELSE <<"Request failed with ">> \o ToStr(response.status) \o <<" ">>
       \o response.statusText

\* readApiError: the body's error string when it is not blank, else a
\* message made from the status line.
readApiError(response) ==
  IF response.body # << >> /\ Len(Trim(response.body[1])) > 0
  THEN response.body[1]
  ELSE <<"Request failed with ">> \o ToStr(response.status) \o <<" ">>
       \o response.statusText

\* The message of a failed transfer request.
GcsFailureMessage(status) == <<"GCS upload failed with ">> \o ToStr(status)

\* uploadSingle's catch: error instanceof Error ? error.message : "Upload failed".
ErrorMessage(thrown) ==
  IF thrown.isError THEN thrown.message ELSE <<"Upload failed">>

\* mutant: the clamp lets 100 through.
PercentUpTo100(uploadedBytes, size) ==
  Min(100, Max(1, Round(uploadedBytes * 100, size)))

\* The counting stream's percentage after a chunk.
Percent(uploadedBytes, size) ==
  Min(99, Max(1, Round(uploadedBytes * 100, size)))

\* mutant: the byte counter is overwritten, not added to.
AccumulateLastChunk(uploadedBytes, byteLength) == byteLength

\* uploadedBytes += value.byteLength
Accumulate(uploadedBytes, byteLength) == uploadedBytes + byteLength

\* mutant: the number of workers has no lower bound.
WorkersUnclamped(concurrency, n) == Min(concurrency, n)

\* runUploadWorkers: the number of workers of a run.
Workers(concurrency, n) == Max(1, Min(concurrency, n))

\* ------------------------------------------------------ signing endpoint

\* What a step of the endpoint returns or throws.
Returned(value) == [ok |-> TRUE, value |-> value, kind |-> "", statusCode |-> 0,
                    message |-> << >>]

Threw(kind, statusCode, message) ==
  [ok |-> FALSE, value |-> << >>, kind |-> kind, statusCode |-> statusCode,
   message |-> message]

\* requireUser: the trimmed x-user-id header, or an AuthError.
requireUser(request) ==
  LET userId == IF request.header = << >> THEN << >> ELSE Trim(request.header[1])
  IN IF userId = << >>
     THEN Threw("AuthError", 401, <<"Missing authentication context">>)
     ELSE Returned(userId)

\* request.json()
requestJson(request) ==
  IF request.body.kind = "malformed"
  THEN Threw("SyntaxError", 0, <<"Unexpected token">>)
  ELSE Returned(request.body)

\* z.string().min(1).max(255)
IsSchemaString(field) ==
  field # << >> /\ field[1].isString /\ field[1].chars >= 1 /\ field[1].chars <= 255

\* signRequestSchema.parse
signRequestSchema(json) ==
  IF json.isObject /\ IsSchemaString(json.fileName) /\ IsSchemaString(json.contentType)
  THEN Returned([fileName |-> json.fileName[1].text,
                 contentType |-> json.contentType[1].text])
  ELSE Threw("ZodError", 0, <<"Invalid input">>)

\* getServerEnv: the cached environment, or envSchema.parse(process.env).
getServerEnv(cache, config) ==
  IF cache \/ config.env = "ok"
  THEN Returned(<<"bucket">>)
  ELSE Threw("ZodError", 0, <<"GCS_BUCKET_NAME is required">>)

\* getStorageClient: the cached client, or one made of the parsed key.
getStorageClient(storageClient, config) ==
  IF storageClient \/ config.key = "ok" THEN Returned(<<"client">>)
  ELSE IF config.key = "notJson"
  THEN Threw("Error", 0, <<"GCP_SERVICE_ACCOUNT_KEY must be valid JSON: ">>)
  ELSE Threw("ZodError", 0, <<"Invalid email">>)

\* createSignedUploadUrl
createSignedUploadUrl(input, srv, config) ==
  LET serverEnv == getServerEnv(srv.cache, config)
      storage == getStorageClient(srv.storageClient, config)
  IN IF ~serverEnv.ok THEN serverEnv
     ELSE IF ~storage.ok THEN storage
     ELSE IF config.signing = "throws" THEN Threw("Error", 0, <<"SigningError">>)
     ELSE Returned([method |-> "PUT", userId |-> input.userId,
                    fileName |-> input.fileName, contentType |-> input.contentType])

\* The try block of POST.
TryPOST(request, srv, config) ==
  LET user == requireUser(request)
      json == requestJson(request)
      input == signRequestSchema(json.value)
  IN IF ~user.ok THEN user
     ELSE IF ~json.ok THEN json
     ELSE IF ~input.ok THEN input
     ELSE createSignedUploadUrl([userId |-> user.value,
                                 fileName |-> input.value.fileName,
                                 contentType |-> input.value.contentType],
                                srv, config)

\* POST: the response to a request.
POST(request, srv, config) ==
  LET result == TryPOST(request, srv, config)
  IN IF result.ok
     THEN [status |-> 200, error |-> << >>, details |-> FALSE, grant |-> <<result.value>>]
     ELSE IF result.kind = "AuthError"
     THEN [status |-> result.statusCode, error |-> <<result.message>>,
           details |-> FALSE, grant |-> << >>]
     ELSE IF result.kind = "ZodError"
     THEN [status |-> 400, error |-> << <<"Invalid request payload">> >>,
           details |-> TRUE, grant |-> << >>]
     ELSE IF result.kind = "SyntaxError"
     THEN [status |-> 400, error |-> << <<"Invalid JSON request body">> >>,
           details |-> FALSE, grant |-> << >>]
     ELSE [status |-> 500, error |-> << <<"Failed to generate signed upload URL">> >>,
           details |-> TRUE, grant |-> << >>]

\* Whether a request gets as far as createSignedUploadUrl.
ReachesSigning(request) ==
  /\ requireUser(request).ok
  /\ requestJson(request).ok
  /\ signRequestSchema(request.body).ok

\* The endpoint before its first request.
NoExchange ==
  [cache |-> FALSE, storageClient |-> FALSE, config |-> << >>, request |-> << >>,
   response |-> << >>]

\* ---------------------------------------------------------- item updaters

\* mutant: the signing transition stores 5 whatever the progress was.
SigningUpdateSetsFive(current) ==
  [current EXCEPT !.status = "signing", !.progress = 5, !.error = << >>]

SigningUpdate(current) ==
  [current EXCEPT !.status = "signing",
                  !.progress = Max(current.progress, 5),
                  !.error = << >>]

\* mutant: the grant's names are stored but the status stays signing.
UploadingUpdateKeepsStatus(current, signed) ==
  [current EXCEPT !.progress = Max(current.progress, 10),
                  !.publicUrl = <<signed.publicUrl>>,
                  !.objectName = <<signed.objectName>>]

UploadingUpdate(current, signed) ==
  [current EXCEPT !.status = "uploading",
                  !.progress = Max(current.progress, 10),
                  !.publicUrl = <<signed.publicUrl>>,
                  !.objectName = <<signed.objectName>>]

\* mutant: the progress update forgets the names the grant gave.
ProgressUpdateDropsNames(current, progress) ==
  [current EXCEPT !.status = "uploading", !.progress = progress,
                  !.publicUrl = << >>, !.objectName = << >>]

ProgressUpdate(current, progress) ==
  [current EXCEPT !.status = "uploading", !.progress = progress]

\* mutant: the public URL is taken from the wrong field of the grant.
SuccessUpdateWrongUrl(current, signed) ==
  [current EXCEPT !.status = "success",
                  !.progress = 100,
                  !.publicUrl = <<signed.objectName>>,
                  !.objectName = <<signed.objectName>>,
                  !.error = << >>]

SuccessUpdate(current, signed) ==
  [current EXCEPT !.status = "success",
                  !.progress = 100,
                  !.publicUrl = <<signed.publicUrl>>,
                  !.objectName = <<signed.objectName>>,
                  !.error = << >>]

\* mutant: a failure resets the progress.
ErrorUpdateResetsProgress(current, message) ==
  [current EXCEPT !.status = "error", !.progress = 0, !.error = <<message>>]

ErrorUpdate(current, message) ==
  [current EXCEPT !.status = "error", !.error = <<message>>]

\* The updater functions uploadSingle passes to updateItem, as data.
Apply(updater, current) ==
  CASE updater.kind = "signing" -> SigningUpdate(current)
    [] updater.kind = "uploading" -> UploadingUpdate(current, updater.signed)
    [] updater.kind = "progress" -> ProgressUpdate(current, updater.progress)
    [] updater.kind = "success" -> SuccessUpdate(current, updater.signed)
    [] updater.kind = "error" -> ErrorUpdate(current, updater.message)

\* mutant: the updated item is moved to the front of the queue.
updateItemMovesToFront(current, id, updater) ==
  LET hit == SelectSeq(current, LAMBDA item : item.id = id)
      rest == SelectSeq(current, LAMBDA item : item.id # id)
  IN [i \in DOMAIN hit |-> Apply(updater, hit[i])] \o rest

\* mutant: an update whose id is not in the queue lands on the first item.
updateItemOrFirst(current, id, updater) ==
  [i \in DOMAIN current |->
     IF current[i].id = id \/ (i = 1 /\ \A j \in DOMAIN current : current[j].id # id)
     THEN Apply(updater, current[i]) ELSE current[i]]

\* updateItem: setItems(current => current.map(...)).
updateItem(current, id, updater) ==
  [i \in DOMAIN current |->
     IF current[i].id = id THEN Apply(updater, current[i]) ELSE current[i]]

\* ------------------------------------------------------------------ state

VARIABLES
  items,                \* useState<UploadItem[]>: the queue
  nextId,               \* how many identifiers createUploadId has handed out
  previewMap,           \* previewMapRef: the ids with a registered preview
  revoked,              \* per id, how often its preview URL was revoked
  runs,                 \* the pool runs started so far: entries, nextIndex, workers
  pipe,                 \* per id, where its uploadSingle call stands, the requests
                        \* it has issued and the refusal of its grant, if any
  runtime,              \* what the runtime supports
  maxParallelUploads,   \* the option of the hook
  observer,             \* onUploadedFilesChange as of the latest render
  uploadedSignatureRef, \* the signature last notified
  pendingRender,        \* a state update is waiting to be rendered
  delivered,            \* the list the observer was last invoked with
  notified,             \* flips at every invocation of the observer
  reported,             \* per id, what uploadFileDirectToGcs passed to onProgress
  mounted,              \* the component that uses the hook is mounted
  server,               \* the signing endpoint: its module caches, and the
                        \* last request with the response it was given
  fieldValue,           \* the form's "files" field, which UploadField's
                        \* observer writes with field.onChange
  env                   \* what the surroundings of this run can do

vars ==
  <<items, nextId, previewMap, revoked, runs, pipe, runtime, maxParallelUploads,
    observer, uploadedSignatureRef, pendingRender, delivered, notified, reported,
    mounted, server, fieldValue, env>>

NoPipe ==
  [pc |-> "none", run |-> 0, file |-> [name |-> << >>, type |-> << >>, size |-> 0],
   signed |-> << >>, uploadedBytes |-> 0, streamOpen |-> FALSE, consumer |-> FALSE,
   grants |-> 0, transfers |-> 0, refused |-> << >>]

NoReport == [last |-> 0, hundreds |-> 0, confirmed |-> FALSE]

\* The state after the hook's first render, in surroundings e.
InitIn(e) ==
  /\ env = e
  /\ items = << >>
  /\ nextId = 1
  /\ previewMap = {}
  /\ revoked = [id \in Ids |-> 0]
  /\ runs = << >>
  /\ pipe = [id \in Ids |-> NoPipe]
  /\ runtime \in e.runtimes
  /\ maxParallelUploads \in e.parallel
  /\ observer \in e.observers
  /\ uploadedSignatureRef = << >>
  /\ pendingRender = FALSE
  /\ delivered = << >>
  /\ notified = FALSE
  /\ fieldValue = << >>
  /\ reported = [id \in Ids |-> NoReport]
  /\ mounted = TRUE
  /\ server = NoExchange

\* The queue, the pools and the pipelines of up to MaxFiles files, with one
\* failure of each kind.
Init ==
  InitIn([maxFiles |-> MaxFiles, files |-> Files, chunks |-> {2},
          runtimes |-> Runtimes, parallel |-> ParallelChoices,
          grantFailures |-> {gf \in GrantFailures : gf.status = 401},
          thrown |-> {th \in Thrown : th.isError},
          transferFailures |-> TransferFailures, observers |-> {0}])

\* The queue with the notification effect and a changing observer.
InitNotify ==
  InitIn([maxFiles |-> NotifyFiles, files |-> {f \in Files : f.size > 0},
          chunks |-> {2},
          runtimes |-> {rt \in Runtimes : rt.fileStream},
          parallel |-> {2},
          grantFailures |-> GrantFailures,
          thrown |-> {th \in Thrown : th.isError},
          transferFailures |-> TransferFailures, observers |-> Observers])

\* The pipeline of one item in detail: larger files that arrive chunk by
\* chunk, and every failure the two boundaries can raise.
InitItem ==
  InitIn([maxFiles |-> ItemFiles, files |-> StreamedFiles, chunks |-> {1, 3, 10},
          runtimes |-> Runtimes, parallel |-> {1},
          grantFailures |-> GrantFailures, thrown |-> Thrown,
          transferFailures |-> TransferFailures, observers |-> {0}])

\* The queue and its preview URLs, in a runtime without File.stream().
InitPreview ==
  InitIn([maxFiles |-> PreviewFiles, files |-> Files, chunks |-> {2},
          runtimes |-> {rt \in Runtimes : ~rt.fileStream}, parallel |-> {1},
          grantFailures |-> {gf \in GrantFailures : gf.status = 401},
          thrown |-> {th \in Thrown : th.isError},
          transferFailures |-> TransferFailures, observers |-> {0}])

\* The signing endpoint alone.
InitSign ==
  InitIn([maxFiles |-> 0, files |-> {}, chunks |-> {},
          runtimes |-> {rt \in Runtimes : rt.duplex}, parallel |-> {1},
          grantFailures |-> {}, thrown |-> {}, transferFailures |-> {},
          observers |-> {0}])

\* The worker pool alone: up to PoolFiles empty files, a maxParallelUploads
\* option that may be 0, and grants that are given or refused.
InitPool ==
  InitIn([maxFiles |-> PoolFiles, files |-> {f \in Files : f.size = 0},
          chunks |-> {2},
          runtimes |-> {rt \in Runtimes : ~rt.fileStream}, parallel |-> {0, 1, 2},
          grantFailures |-> {gf \in GrantFailures : gf.status = 401},
          thrown |-> {th \in Thrown : th.isError},
          transferFailures |-> TransferFailures, observers |-> {0}])

\* The hook inside UploadField, the "files" field of UploadPage's form: the
\* observer is the arrow function the field's render prop makes anew at
\* every render, and the runtime has no File.stream.
InitForm ==
  InitIn([maxFiles |-> FormFiles, files |-> Files, chunks |-> {2},
          runtimes |-> {rt \in Runtimes : ~rt.fileStream}, parallel |-> {1},
          grantFailures |-> {gf \in GrantFailures : gf.status = 401},
          thrown |-> {th \in Thrown : th.isError},
          transferFailures |-> TransferFailures, observers |-> Observers \ {0}])

\* ------------------------------------------------------- derived values

IsImage(file) == file.type # << >> /\ Head(file.type) = "image/"

\* mutant: the filter does not look at the status.
uploadedFilesAnyStatus(its) ==
  LET ok(item) == item.publicUrl # << >> /\ item.objectName # << >>
      kept == SelectSeq(its, ok)
  IN [i \in DOMAIN kept |->
        [objectName |-> kept[i].objectName[1],
         publicUrl |-> kept[i].publicUrl[1],
         fileName |-> kept[i].file.name,
         contentType |-> IF kept[i].file.type # << >>
                         THEN kept[i].file.type ELSE DEFAULT_CONTENT_TYPE,
         size |-> kept[i].file.size]]

\* The successful-file list the hook exposes.
uploadedFiles(its) ==
  LET ok(item) == /\ item.status = "success"
                  /\ item.publicUrl # << >>
                  /\ item.objectName # << >>
      kept == SelectSeq(its, ok)
  IN [i \in DOMAIN kept |->
        [objectName |-> kept[i].objectName[1],
         publicUrl |-> kept[i].publicUrl[1],
         fileName |-> kept[i].file.name,
         contentType |-> IF kept[i].file.type # << >>
                         THEN kept[i].file.type ELSE DEFAULT_CONTENT_TYPE,
         size |-> kept[i].file.size]]

\* mutant: the signature only counts the files.
uploadedSignatureByCount(files) == ToStr(Len(files))

uploadedSignature(files) ==
  Join([i \in DOMAIN files |-> files[i].objectName], <<"::">>)

activeUploads(its) ==
  Cardinality({i \in DOMAIN its : its[i].status \in {"signing", "uploading"}})

successCount(its) ==
  Cardinality({i \in DOMAIN its : its[i].status = "success"})

\* Whether the queue holds an item with this id, and that item.
InQueue(its, id) == \E i \in DOMAIN its : its[i].id = id

ItemOf(its, id) == its[CHOOSE i \in DOMAIN its : its[i].id = id]

\* ---------------------------------------------------------------- actions

\* setItems: React drops the state updates of a component that is unmounted.
setItems(next) == items' = IF mounted THEN next ELSE items

\* The new item addFiles makes of a file.
NewItem(id, file) ==
  [id |-> id, file |-> file,
   previewUrl |-> IF IsImage(file) THEN <<PreviewUrlOf(id)>> ELSE << >>,
   progress |-> 0, status |-> "queued",
   error |-> << >>, publicUrl |-> << >>, objectName |-> << >>]

\* The first k workers of a run each claim an entry and enter uploadSingle,
\* which marks the entry signing before it waits for the grant.
RECURSIVE StartWorkers(_, _, _)
StartWorkers(its, entries, k) ==
  IF k = 0 THEN its
  ELSE IF k > Len(entries) THEN StartWorkers(its, entries, k - 1)
  ELSE updateItem(StartWorkers(its, entries, k - 1), entries[k], [kind |-> "signing"])

\* mutant: the new items replace the queue.
AddFilesReplacesQueue(files) ==
  LET n == Len(files)
      newItems == [k \in 1..n |-> NewItem(createUploadId(nextId + k - 1), files[k])]
      entries == [k \in 1..n |-> newItems[k].id]
      w == Workers(maxParallelUploads, n)
  IN IF n = 0 THEN mounted /\ UNCHANGED vars ELSE
     /\ mounted
     /\ nextId + n - 1 <= env.maxFiles
     /\ nextId' = nextId + n
     /\ previewMap' = previewMap \cup {newItems[k].id : k \in {j \in 1..n : IsImage(files[j])}}
     /\ setItems(StartWorkers(newItems, entries, w))
     /\ runs' = Append(runs, [entries |-> entries, nextIndex |-> w, workers |-> w])
     /\ pipe' = [id \in Ids |->
                  IF \E k \in 1..n : entries[k] = id
                  THEN LET k == CHOOSE j \in 1..n : entries[j] = id
                       IN [NoPipe EXCEPT !.pc = IF k <= w THEN "grant" ELSE "unclaimed",
                                         !.grants = IF k <= w THEN 1 ELSE 0,
                                         !.run = Len(runs) + 1,
                                         !.file = files[k]]
                  ELSE pipe[id]]
     /\ pendingRender' = TRUE
     /\ UNCHANGED <<revoked, runtime, maxParallelUploads, observer,
                    uploadedSignatureRef, delivered, notified, reported, mounted, server, fieldValue, env>>

\* addFiles(files) with startUploads(newItems) up to the workers' first await;
\* an empty list returns at once.
AddFiles(files) ==
  LET n == Len(files)
      newItems == [k \in 1..n |-> NewItem(createUploadId(nextId + k - 1), files[k])]
      entries == [k \in 1..n |-> newItems[k].id]
      w == Workers(maxParallelUploads, n)
  IN IF n = 0 THEN mounted /\ UNCHANGED vars ELSE
     /\ mounted
     /\ nextId + n - 1 <= env.maxFiles
     /\ nextId' = nextId + n
     /\ previewMap' = previewMap \cup {newItems[k].id : k \in {j \in 1..n : IsImage(files[j])}}
     /\ setItems(StartWorkers(newItems \o items, entries, w))
     /\ runs' = Append(runs, [entries |-> entries, nextIndex |-> w, workers |-> w])
     /\ pipe' = [id \in Ids |->
                  IF \E k \in 1..n : entries[k] = id
                  THEN LET k == CHOOSE j \in 1..n : entries[j] = id
                       IN [NoPipe EXCEPT !.pc = IF k <= w THEN "grant" ELSE "unclaimed",
                                         !.grants = IF k <= w THEN 1 ELSE 0,
                                         !.run = Len(runs) + 1,
                                         !.file = files[k]]
                  ELSE pipe[id]]
     /\ pendingRender' = TRUE
     /\ UNCHANGED <<revoked, runtime, maxParallelUploads, observer,
                    uploadedSignatureRef, delivered, notified, reported, mounted, server, fieldValue, env>>

\* mutant: a worker returns after its first entry.
WorkerStops(its, doneId, donePipe) ==
  /\ setItems(its)
  /\ runs' = [runs EXCEPT ![pipe[doneId].run].workers = @ - 1]
  /\ pipe' = [pipe EXCEPT ![doneId] = donePipe]

\* mutant: the worker's loop ends one entry early.
WorkerResumeLeavesLast(its, doneId, donePipe) ==
  LET r == pipe[doneId].run
      run == runs[r]
  IN IF run.nextIndex < Len(run.entries) - 1
     THEN LET current == run.entries[run.nextIndex + 1]
          IN /\ setItems(updateItem(its, current, [kind |-> "signing"]))
             /\ runs' = [runs EXCEPT ![r].nextIndex = @ + 1]
             /\ pipe' = [pipe EXCEPT ![doneId] = donePipe,
                                     ![current].pc = "grant",
                                     ![current].grants = @ + 1]
     ELSE /\ setItems(its)
          /\ runs' = [runs EXCEPT ![r].workers = @ - 1]
          /\ pipe' = [pipe EXCEPT ![doneId] = donePipe]

\* mutant: the worker claims an entry without moving the cursor.
WorkerResumeSameCursor(its, doneId, donePipe) ==
  LET r == pipe[doneId].run
      run == runs[r]
  IN IF run.nextIndex < Len(run.entries)
     THEN LET current == run.entries[run.nextIndex + 1]
          IN /\ setItems(updateItem(its, current, [kind |-> "signing"]))
             /\ runs' = runs
             /\ pipe' = [pipe EXCEPT ![doneId] = donePipe,
                                     ![current].pc = "grant",
                                     ![current].grants = @ + 1]
     ELSE /\ setItems(its)
          /\ runs' = [runs EXCEPT ![r].workers = @ - 1]
          /\ pipe' = [pipe EXCEPT ![doneId] = donePipe]

\* The worker whose uploadSingle(doneId) has returned goes round its loop:
\* it claims the next entry, if any, and enters uploadSingle for it.
WorkerResume(its, doneId, donePipe) ==
  LET r == pipe[doneId].run
      run == runs[r]
  IN IF run.nextIndex < Len(run.entries)
     THEN LET current == run.entries[run.nextIndex + 1]
          IN /\ setItems(updateItem(its, current, [kind |-> "signing"]))
             /\ runs' = [runs EXCEPT ![r].nextIndex = @ + 1]
             /\ pipe' = [pipe EXCEPT ![doneId] = donePipe,
                                     ![current].pc = "grant",
                                     ![current].grants = @ + 1]
     ELSE /\ setItems(its)
          /\ runs' = [runs EXCEPT ![r].workers = @ - 1]
          /\ pipe' = [pipe EXCEPT ![doneId] = donePipe]

\* uploadSingle has returned.  A stream the request consumed is closed or
\* cancelled by then; a stream no request took stays as it was made.
Finished(p) == [p EXCEPT !.pc = "done", !.streamOpen = @ /\ ~p.consumer]

\* mutant: every file is sent as a counted stream.
GrantOkAlwaysStreams(id) ==
  LET signed == SignedFor(id)
  IN /\ pipe[id].pc = "grant"
     /\ setItems(updateItem(items, id, [kind |-> "uploading", signed |-> signed]))
     /\ pipe' = [pipe EXCEPT ![id] =
                  [@ EXCEPT !.pc = "streamed", !.signed = <<signed>>,
                            !.transfers = @ + 1,
                            !.streamOpen = TRUE, !.consumer = runtime.duplex]]
     /\ pendingRender' = TRUE
     /\ UNCHANGED <<nextId, previewMap, revoked, runs, runtime, maxParallelUploads,
                    observer, uploadedSignatureRef, delivered, notified, reported, mounted, server, fieldValue, env>>

\* requestSignedUrl answers 200: the item is marked uploading and
\* uploadFileDirectToGcs issues its first transfer request.
GrantOk(id) ==
  LET signed == SignedFor(id)
      file == pipe[id].file
      buffered == file.size = 0 \/ ~runtime.fileStream
  IN /\ pipe[id].pc = "grant"
     /\ setItems(updateItem(items, id, [kind |-> "uploading", signed |-> signed]))
     /\ pipe' = [pipe EXCEPT ![id] =
                  IF buffered
                  THEN [@ EXCEPT !.pc = "buffered", !.signed = <<signed>>,
                                 !.transfers = @ + 1]
                  ELSE [@ EXCEPT !.pc = "streamed", !.signed = <<signed>>,
                                 !.transfers = @ + 1,
                                 !.streamOpen = TRUE, !.consumer = runtime.duplex]]
     /\ pendingRender' = TRUE
     /\ UNCHANGED <<nextId, previewMap, revoked, runs, runtime, maxParallelUploads,
                    observer, uploadedSignatureRef, delivered, notified, reported, mounted, server, fieldValue, env>>

\* mutant: the failure leaves uploadSingle and ends the worker.
FailEndsWorker(id, message, donePipe) ==
  /\ WorkerStops(updateItem(items, id, [kind |-> "error", message |-> message]),
                 id, donePipe)
  /\ pendingRender' = TRUE
  /\ UNCHANGED <<nextId, previewMap, revoked, runtime, maxParallelUploads,
                 observer, uploadedSignatureRef, delivered, notified, reported, mounted, server, fieldValue, env>>

\* uploadSingle's catch, then the worker's loop.
Fail(id, message, donePipe) ==
  /\ WorkerResume(updateItem(items, id, [kind |-> "error", message |-> message]),
                  id, donePipe)
  /\ pendingRender' = TRUE
  /\ UNCHANGED <<nextId, previewMap, revoked, runtime, maxParallelUploads,
                 observer, uploadedSignatureRef, delivered, notified, reported, mounted, server, fieldValue, env>>

\* The signing endpoint answers with a non-success status.
GrantRejected(id, response) ==
  /\ pipe[id].pc = "grant"
  /\ Fail(id, readApiError(response),
          Finished([pipe[id] EXCEPT !.refused = <<response>>]))

\* The request to the signing endpoint itself fails.
GrantThrows(id, thrown) ==
  /\ pipe[id].pc = "grant"
  /\ Fail(id, ErrorMessage(thrown), Finished(pipe[id]))

\* The counting stream's pull: one chunk of the file arrives.  The stream
\* asks for its first chunk when it is made; it asks for more only while the
\* request consumes it.
PullChunk(id, chunk) ==
  LET p == pipe[id]
      value == Min(chunk, p.file.size - p.uploadedBytes)
      uploadedBytes == Accumulate(p.uploadedBytes, value)
      percent == Percent(uploadedBytes, p.file.size)
  IN /\ p.streamOpen
     /\ p.uploadedBytes < p.file.size
     /\ p.consumer \/ p.uploadedBytes = 0
     /\ pipe' = [pipe EXCEPT ![id].uploadedBytes = uploadedBytes]
     /\ setItems(updateItem(items, id, [kind |-> "progress", progress |-> percent]))
     /\ reported' = [reported EXCEPT ![id].last = percent,
                                     ![id].hundreds = @ + (IF percent = 100 THEN 1 ELSE 0)]
     /\ pendingRender' = TRUE
     /\ UNCHANGED <<nextId, previewMap, revoked, runs, runtime, maxParallelUploads,
                    observer, uploadedSignatureRef, delivered, notified, mounted, server, fieldValue, env>>

\* A transfer request is answered with a success status: onProgress(100),
\* the success update, then the worker's loop.
Succeed(id) ==
  LET signed == pipe[id].signed[1]
      its1 == updateItem(items, id, [kind |-> "progress", progress |-> 100])
      its2 == updateItem(its1, id, [kind |-> "success", signed |-> signed])
  IN /\ WorkerResume(its2, id, Finished(pipe[id]))
     /\ reported' = [reported EXCEPT ![id].hundreds = @ + 1, ![id].confirmed = TRUE]
     /\ pendingRender' = TRUE
     /\ UNCHANGED <<nextId, previewMap, revoked, runtime, maxParallelUploads,
                    observer, uploadedSignatureRef, delivered, notified, mounted, server, fieldValue, env>>

\* The streamed request is answered with a success status, after its body
\* has been sent.
StreamedOk(id) ==
  /\ pipe[id].pc = "streamed"
  /\ pipe[id].consumer
  /\ pipe[id].uploadedBytes = pipe[id].file.size
  /\ Succeed(id)

\* mutant: a non-success answer to the streamed request starts the fallback.
StreamedRejectedFallsBack(id, status) ==
  /\ pipe[id].pc = "streamed"
  /\ pipe[id].consumer
  /\ pipe' = [pipe EXCEPT ![id].pc = "fallback",
                          ![id].transfers = @ + 1,
                          ![id].streamOpen = FALSE]
  /\ UNCHANGED <<items, nextId, previewMap, revoked, runs, runtime,
                 maxParallelUploads, observer, uploadedSignatureRef, pendingRender,
                 delivered, notified, reported, mounted, server, fieldValue, env>>

\* The streamed request is answered with a non-success status.
StreamedRejected(id, status) ==
  /\ pipe[id].pc = "streamed"
  /\ pipe[id].consumer
  /\ Fail(id, GcsFailureMessage(status), Finished(pipe[id]))

\* mutant: a streamed request that throws fails the item at once.
StreamedThrowsFails(id) ==
  /\ pipe[id].pc = "streamed"
  /\ Fail(id, <<"Failed to fetch">>, Finished(pipe[id]))

\* fetch throws for the streamed request: the buffered request is issued.
\* A runtime that refuses streamed bodies leaves the stream as it is; a
\* request that fails while it consumes the stream cancels it.
StreamedThrows(id) ==
  /\ pipe[id].pc = "streamed"
  /\ pipe' = [pipe EXCEPT ![id].pc = "fallback",
                          ![id].transfers = @ + 1,
                          ![id].streamOpen = ~pipe[id].consumer]
  /\ UNCHANGED <<items, nextId, previewMap, revoked, runs, runtime,
                 maxParallelUploads, observer, uploadedSignatureRef, pendingRender,
                 delivered, notified, reported, mounted, server, fieldValue, env>>

\* The buffered request (of an empty file, or the fallback) is answered.
BufferedOk(id) ==
  /\ pipe[id].pc \in {"buffered", "fallback"}
  /\ Succeed(id)

BufferedRejected(id, status) ==
  /\ pipe[id].pc \in {"buffered", "fallback"}
  /\ Fail(id, GcsFailureMessage(status), Finished(pipe[id]))

BufferedThrows(id, thrown) ==
  /\ pipe[id].pc \in {"buffered", "fallback"}
  /\ Fail(id, ErrorMessage(thrown), Finished(pipe[id]))

\* mutant: removeItem revokes the URL but leaves the map's entry.
RemoveItemKeepsMapEntry(id) ==
  LET match == SelectSeq(items, LAMBDA item : item.id = id)
      hasPreview == match # << >> /\ match[1].previewUrl # << >>
  IN /\ mounted
     /\ id < nextId
     /\ revoked' = IF hasPreview THEN [revoked EXCEPT ![id] = @ + 1] ELSE revoked
     /\ setItems(SelectSeq(items, LAMBDA item : item.id # id))
     /\ pendingRender' = TRUE
     /\ UNCHANGED <<nextId, previewMap, runs, pipe, runtime, maxParallelUploads,
                    observer, uploadedSignatureRef, delivered, notified, reported,
                    mounted, server, fieldValue, env>>

\* removeItem(id)
RemoveItem(id) ==
  LET match == SelectSeq(items, LAMBDA item : item.id = id)
      hasPreview == match # << >> /\ match[1].previewUrl # << >>
  IN /\ mounted
     /\ id < nextId
     /\ revoked' = IF hasPreview THEN [revoked EXCEPT ![id] = @ + 1] ELSE revoked
     /\ previewMap' = IF hasPreview THEN previewMap \ {id} ELSE previewMap
     /\ setItems(SelectSeq(items, LAMBDA item : item.id # id))
     /\ pendingRender' = TRUE
     /\ UNCHANGED <<nextId, runs, pipe, runtime, maxParallelUploads, observer,
                    uploadedSignatureRef, delivered, notified, reported, mounted, server, fieldValue, env>>

\* mutant: clearFinished removes the successful items only.
ClearFinishedOnlySuccess ==
  LET finished(item) == item.status = "success"
      gone == {items[i].id : i \in {j \in DOMAIN items :
                                      finished(items[j]) /\ items[j].previewUrl # << >>}}
  IN /\ mounted
     /\ setItems(SelectSeq(items, LAMBDA item : ~finished(item)))
     /\ revoked' = [id \in Ids |-> IF id \in gone THEN revoked[id] + 1 ELSE revoked[id]]
     /\ previewMap' = previewMap \ gone
     /\ pendingRender' = TRUE
     /\ UNCHANGED <<nextId, runs, pipe, runtime, maxParallelUploads, observer,
                    uploadedSignatureRef, delivered, notified, reported, mounted, server, fieldValue, env>>

\* mutant: clearFinished revokes the URLs but leaves the map's entries.
ClearFinishedKeepsMapEntries ==
  LET finished(item) == item.status = "success" \/ item.status = "error"
      gone == {items[i].id : i \in {j \in DOMAIN items :
                                      finished(items[j]) /\ items[j].previewUrl # << >>}}
  IN /\ mounted
     /\ setItems(SelectSeq(items, LAMBDA item : ~finished(item)))
     /\ revoked' = [id \in Ids |-> IF id \in gone THEN revoked[id] + 1 ELSE revoked[id]]
     /\ pendingRender' = TRUE
     /\ UNCHANGED <<nextId, previewMap, runs, pipe, runtime, maxParallelUploads, observer,
                    uploadedSignatureRef, delivered, notified, reported, mounted, server, fieldValue, env>>

\* clearFinished()
ClearFinished ==
  LET finished(item) == item.status = "success" \/ item.status = "error"
      gone == {items[i].id : i \in {j \in DOMAIN items :
                                      finished(items[j]) /\ items[j].previewUrl # << >>}}
  IN /\ mounted
     /\ setItems(SelectSeq(items, LAMBDA item : ~finished(item)))
     /\ revoked' = [id \in Ids |-> IF id \in gone THEN revoked[id] + 1 ELSE revoked[id]]
     /\ previewMap' = previewMap \ gone
     /\ pendingRender' = TRUE
     /\ UNCHANGED <<nextId, runs, pipe, runtime, maxParallelUploads, observer,
                    uploadedSignatureRef, delivered, notified, reported, mounted, server, fieldValue, env>>

\* mutant: the cleanup empties the map without revoking its URLs.
UnmountOnlyClears ==
  /\ mounted
  /\ mounted' = FALSE
  /\ previewMap' = {}
  /\ UNCHANGED <<items, nextId, revoked, runs, pipe, runtime, maxParallelUploads,
                 observer, uploadedSignatureRef, pendingRender, delivered, notified,
                 reported, server, fieldValue, env>>

\* The component unmounts: the cleanup of the mount effect revokes every
\* preview URL still in the map and empties the map.
Unmount ==
  /\ mounted
  /\ mounted' = FALSE
  /\ revoked' = [id \in Ids |-> IF id \in previewMap THEN revoked[id] + 1 ELSE revoked[id]]
  /\ previewMap' = {}
  /\ UNCHANGED <<items, nextId, runs, pipe, runtime, maxParallelUploads, observer,
                 uploadedSignatureRef, pendingRender, delivered, notified, reported,
                 server, fieldValue, env>>

\* The signing endpoint answers a request; its module keeps the parsed
\* environment and the storage client for the requests that follow.
Sign(request, config) ==
  LET reaches == ReachesSigning(request)
      serverEnv == getServerEnv(server.cache, config)
      storage == getStorageClient(server.storageClient, config)
  IN /\ server' = [cache |-> server.cache \/ (reaches /\ serverEnv.ok),
                   storageClient |-> server.storageClient
                                       \/ (reaches /\ serverEnv.ok /\ storage.ok),
                   config |-> <<config>>,
                   request |-> <<request>>,
                   response |-> <<POST(request, server, config)>>]
     /\ UNCHANGED <<items, nextId, previewMap, revoked, runs, pipe, runtime,
                    maxParallelUploads, observer, uploadedSignatureRef, pendingRender,
                    delivered, notified, reported, mounted, fieldValue, env>>

\* The parent renders the hook with another observer function (or none).
SetObserver(o) ==
  /\ mounted
  /\ o # observer
  /\ observer' = o
  /\ pendingRender' = TRUE
  /\ UNCHANGED <<items, nextId, previewMap, revoked, runs, pipe, runtime,
                 maxParallelUploads, uploadedSignatureRef, delivered, notified,
                 reported, mounted, server, fieldValue, env>>

\* mutant: the effect does not compare signatures.
SkipsOnlyWithoutObserver(obs, ref, signature) == obs = 0

\* The two early returns of the notification effect.
SkipsNotification(obs, ref, signature) == obs = 0 \/ ref = signature

\* A render is committed and the notification effect runs.  The observer
\* UploadField passes stores the list it is given in the form field.
RenderCommit ==
  LET files == uploadedFiles(items)
      signature == uploadedSignature(files)
      skip == SkipsNotification(observer, uploadedSignatureRef, signature)
  IN /\ mounted
     /\ pendingRender
     /\ pendingRender' = FALSE
     /\ uploadedSignatureRef' = IF skip THEN uploadedSignatureRef ELSE signature
     /\ delivered' = IF skip THEN delivered ELSE files
     /\ notified' = IF skip THEN notified ELSE ~notified
     /\ fieldValue' = IF skip THEN fieldValue ELSE files
     /\ UNCHANGED <<items, nextId, previewMap, revoked, runs, pipe, runtime,
                    maxParallelUploads, observer, reported, mounted, server, env>>

\* The "Reset form" button: form.reset({ files: [] }) stores the empty
\* list in the field; the form renders again, and the uploader with it,
\* with a new observer function o.
FormReset(o) ==
  /\ mounted
  /\ o # 0
  /\ o # observer
  /\ fieldValue' = << >>
  /\ observer' = o
  /\ pendingRender' = TRUE
  /\ UNCHANGED <<items, nextId, previewMap, revoked, runs, pipe, runtime,
                 maxParallelUploads, uploadedSignatureRef, delivered, notified,
                 reported, mounted, server, env>>

\* The file lists a user may enqueue at once.
FileLists == UNION {[1..n -> env.files] : n \in 0..env.maxFiles}

\* The turns of the pipelines and of the user.
NextQueue ==
  \/ \E files \in FileLists : AddFiles(files)
  \/ \E id \in Ids : GrantOk(id)
  \/ \E id \in Ids, response \in env.grantFailures : GrantRejected(id, response)
  \/ \E id \in Ids, thrown \in env.thrown : GrantThrows(id, thrown)
  \/ \E id \in Ids, chunk \in env.chunks : PullChunk(id, chunk)
  \/ \E id \in Ids : StreamedOk(id)
  \/ \E id \in Ids, status \in env.transferFailures : StreamedRejected(id, status)
  \/ \E id \in Ids : StreamedThrows(id)
  \/ \E id \in Ids : BufferedOk(id)
  \/ \E id \in Ids, status \in env.transferFailures : BufferedRejected(id, status)
  \/ \E id \in Ids, thrown \in env.thrown : BufferedThrows(id, thrown)
  \/ \E id \in Ids : RemoveItem(id)
  \/ ClearFinished

\* The turns of the renders.
NextRender ==
  \/ \E o \in env.observers : SetObserver(o)
  \/ RenderCommit

\* The turns of the notification's specification: of the ways into error,
\* the rejected grant stands for all.
NextNotify ==
  \/ \E files \in FileLists : AddFiles(files)
  \/ \E id \in Ids : GrantOk(id)
  \/ \E id \in Ids, response \in env.grantFailures : GrantRejected(id, response)
  \/ \E id \in Ids, chunk \in env.chunks : PullChunk(id, chunk)
  \/ \E id \in Ids : StreamedOk(id)
  \/ \E id \in Ids : StreamedThrows(id)
  \/ \E id \in Ids : BufferedOk(id)
  \/ \E id \in Ids : RemoveItem(id)
  \/ ClearFinished
  \/ NextRender

Spec == Init /\ [][NextQueue]_vars

SpecNotify == InitNotify /\ [][NextNotify]_vars

SpecItem == InitItem /\ [][NextQueue]_vars

\* The turns of the queue and its previews up to the unmount.
NextPreview ==
  \/ \E files \in FileLists : AddFiles(files)
  \/ \E id \in Ids : GrantOk(id)
  \/ \E id \in Ids, response \in env.grantFailures : GrantRejected(id, response)
  \/ \E id \in Ids : BufferedOk(id)
  \/ \E id \in Ids : RemoveItem(id)
  \/ ClearFinished
  \/ Unmount

\* The turns of a queue whose user only clears the finished items.
NextClear ==
  \/ \E files \in FileLists : AddFiles(files)
  \/ \E id \in Ids : GrantOk(id)
  \/ \E id \in Ids, response \in env.grantFailures : GrantRejected(id, response)
  \/ \E id \in Ids : BufferedOk(id)
  \/ ClearFinished

\* The turns of the signing endpoint.
NextSign == \E request \in Requests, config \in ServerConfigs : Sign(request, config)

SpecSign == InitSign /\ [][NextSign]_vars

\* The turns of the worker pool.
NextPool ==
  \/ \E files \in FileLists : AddFiles(files)
  \/ \E id \in Ids : GrantOk(id)
  \/ \E id \in Ids, response \in env.grantFailures : GrantRejected(id, response)
  \/ \E id \in Ids : BufferedOk(id)

SpecPool == InitPool /\ [][NextPool]_vars

SpecPreview == InitPreview /\ [][NextPreview]_vars

SpecClear == InitPreview /\ [][NextClear]_vars

\* The turns of the uploader as a form field.
NextForm ==
  \/ \E files \in FileLists : AddFiles(files)
  \/ \E id \in Ids : GrantOk(id)
  \/ \E id \in Ids, response \in env.grantFailures : GrantRejected(id, response)
  \/ \E id \in Ids : BufferedOk(id)
  \/ \E id \in Ids : RemoveItem(id)
  \/ ClearFinished
  \/ NextRender
  \/ \E o \in env.observers : FormReset(o)

SpecForm == InitForm /\ [][NextForm]_vars

\* The request of item id that is in flight is answered, or fails.
Completes(id) ==
  \/ GrantOk(id)
  \/ \E response \in env.grantFailures : GrantRejected(id, response)
  \/ \E thrown \in env.thrown : GrantThrows(id, thrown)
  \/ StreamedOk(id)
  \/ \E status \in env.transferFailures : StreamedRejected(id, status)
  \/ StreamedThrows(id)
  \/ BufferedOk(id)
  \/ \E status \in env.transferFailures : BufferedRejected(id, status)
  \/ \E thrown \in env.thrown : BufferedThrows(id, thrown)

\* The queue when no request stays unanswered for ever.
SpecLive == Spec /\ \A id \in Ids : WF_vars(Completes(id))

\* ----------------------------------------------------------------- claims

Terminal == {"success", "error"}

\* C1: in every reachable state the number of items that are signing or
\* uploading is at most min(C, N), C the maxParallelUploads option and N the
\* number of items enqueued so far, also when a second addFiles is issued
\* while an earlier batch is in flight.
C1_ActiveAtMostMinCN ==
  activeUploads(items) <= Min(maxParallelUploads, nextId - 1)

StatusEdges ==
  { <<"queued", "signing">>, <<"signing", "uploading">>,
    <<"uploading", "success">>, <<"signing", "error">>, <<"uploading", "error">> }

\* C2: every change of an item's status is along queued->signing,
\* signing->uploading, uploading->success, signing->error or
\* uploading->error.
C2_OnlyStatusEdges ==
  [][\A id \in Ids :
       (InQueue(items, id) /\ InQueue(items', id)) =>
         \/ ItemOf(items', id).status = ItemOf(items, id).status
         \/ <<ItemOf(items, id).status, ItemOf(items', id).status>> \in StatusEdges]_vars

\* C3: once an item is in success or error, its status, progress and error
\* do not change while it stays in the queue.
C3_TerminalIsFinal ==
  [][\A id \in Ids :
       (/\ InQueue(items, id)
        /\ InQueue(items', id)
        /\ ItemOf(items, id).status \in Terminal) =>
         /\ ItemOf(items', id).status = ItemOf(items, id).status
         /\ ItemOf(items', id).progress = ItemOf(items, id).progress
         /\ ItemOf(items', id).error = ItemOf(items, id).error]_vars

\* C4: in every reachable state every item with progress 100 has status
\* success.
C4_FullProgressIsSuccess ==
  \A i \in DOMAIN items : items[i].progress = 100 => items[i].status = "success"

\* C4's case: an item completed its transfer and stands at 100.
C4_Witness ==
  \E i \in DOMAIN items :
    /\ items[i].progress = 100
    /\ items[i].status = "success"
    /\ items[i].file.size > 0
    /\ pipe[items[i].id].uploadedBytes = items[i].file.size

\* C5: in every reachable state every item with status success has progress
\* 100 and the objectName and publicUrl of its grant.
C5_SuccessIsComplete ==
  \A i \in DOMAIN items :
    items[i].status = "success" =>
      /\ items[i].progress = 100
      /\ pipe[items[i].id].signed # << >>
      /\ items[i].objectName = <<pipe[items[i].id].signed[1].objectName>>
      /\ items[i].publicUrl = <<pipe[items[i].id].signed[1].publicUrl>>

\* C5's case: an item is in success.
C5_Witness ==
  \E i \in DOMAIN items : items[i].status = "success" /\ items[i].objectName # << >>

\* C6: when an item changes to error, its progress is what it was before
\* the change and its error is a message that is not empty.
C6_ErrorKeepsProgress ==
  [][\A id \in Ids :
       (/\ InQueue(items, id)
        /\ InQueue(items', id)
        /\ ItemOf(items, id).status # "error"
        /\ ItemOf(items', id).status = "error") =>
         /\ ItemOf(items', id).progress = ItemOf(items, id).progress
         /\ ItemOf(items', id).error # << >>
         /\ Len(ItemOf(items', id).error[1]) > 0]_vars

\* C6's case: a transfer failed after part of the file was streamed, and
\* the item is in error at the percentage last reported.
C6_Witness ==
  \E i \in DOMAIN items :
    /\ items[i].status = "error"
    /\ items[i].progress = Percent(3, 11)
    /\ items[i].error = <<GcsFailureMessage(403)>>

\* C7: while an item's streamed request is in flight and consumes the
\* counting stream, the item's stored progress never decreases from one
\* state of the queue to the next (the first callback after the uploading
\* transition included).
C7_ProgressNeverDecreases ==
  [][\A id \in Ids :
       (/\ InQueue(items, id)
        /\ InQueue(items', id)
        /\ pipe[id].pc = "streamed"
        /\ pipe[id].consumer) =>
         ItemOf(items', id).progress >= ItemOf(items, id).progress]_vars

\* C8: the values the counting stream passes to the progress callback in
\* one transfer never decrease and lie in 1..99; 100 is passed at most once,
\* and only after the destination answered with a success status.
C8_StreamedValues ==
  /\ [][\A id \in Ids :
          reported'[id].last # reported[id].last =>
            /\ reported'[id].last \in 1..99
            /\ reported'[id].last >= reported[id].last]_vars
  /\ [](\A id \in Ids :
          /\ reported[id].hundreds <= 1
          /\ reported[id].hundreds = 1 => reported[id].confirmed)

\* C8's case: a file was streamed in more than one chunk and its transfer
\* was confirmed.
C8_Witness ==
  \E id \in Ids :
    /\ reported[id].last = 99
    /\ reported[id].hundreds = 1
    /\ pipe[id].pc = "done"
    /\ pipe[id].file.size = 11
    /\ pipe[id].consumer

\* C9: the observer is invoked only when the derived list differs from the
\* list it was last invoked with, and it is then given the derived list.
C9_NotifiesOnlyOnChange ==
  [][notified' # notified =>
       /\ uploadedFiles(items) # delivered
       /\ delivered' = uploadedFiles(items)]_vars

\* C9's case: the observer was invoked with a list that is not empty, and a
\* render of a queue in which another item is uploading has left it at that.
C9_Witness ==
  /\ delivered # << >>
  /\ delivered = uploadedFiles(items)
  /\ notified
  /\ ~pendingRender
  /\ \E i \in DOMAIN items : items[i].status = "uploading"

\* C10: whenever every state update has been rendered and an observer is
\* set, the list last delivered is the current derived list.
C10_DeliveredIsCurrent ==
  (~pendingRender /\ observer # 0) => delivered = uploadedFiles(items)

\* C10's case: the observer has been invoked an even number of times and
\* holds the one entry of the current derived list.
C10_Witness ==
  /\ ~pendingRender
  /\ observer # 0
  /\ ~notified
  /\ Len(delivered) = 1
  /\ delivered = uploadedFiles(items)

\* C11: in every state the exposed uploadedFiles list has exactly one entry
\* for each item of the queue that is in success with objectName and
\* publicUrl set, the entry carries that item's objectName, publicUrl, file
\* name, content type and size, there is no other entry, and the entries
\* stand in the order of their items in the queue.
C11_UploadedFilesExact ==
  LET files == uploadedFiles(items)
      Q == {i \in DOMAIN items : /\ items[i].status = "success"
                                 /\ items[i].objectName # << >>
                                 /\ items[i].publicUrl # << >>}
      rank(i) == Cardinality({j \in Q : j <= i})
  IN /\ Len(files) = Cardinality(Q)
     /\ \A i \in Q :
          /\ files[rank(i)].objectName = items[i].objectName[1]
          /\ files[rank(i)].publicUrl = items[i].publicUrl[1]
          /\ files[rank(i)].fileName = items[i].file.name
          /\ files[rank(i)].size = items[i].file.size
          /\ files[rank(i)].contentType =
               (IF items[i].file.type = << >>
                THEN <<"application/octet-stream">> ELSE items[i].file.type)

\* C11's case: the queue holds an item that is uploading with its grant's
\* names set, and after it a file without a MIME type that succeeded.
C11_Witness ==
  /\ Len(items) = 2
  /\ items[1].status = "uploading"
  /\ items[1].objectName # << >>
  /\ items[2].status = "success"
  /\ items[2].file.type = << >>
  /\ Len(uploadedFiles(items)) = 1

\* C12: an item whose grant request was answered with a non-success status
\* is in error (while it is in the queue) with the body's error string, or,
\* when the body has no error string that is not blank, with the message
\* made from the status line; no transfer request was issued for it and its
\* grant was requested once; and as long as no item has succeeded the
\* observer has not been invoked.
C12_RefusedGrantFailsItem ==
  /\ \A id \in Ids :
       pipe[id].refused # << >> =>
         LET r == pipe[id].refused[1]
             blank == r.body = << >> \/ \A k \in DOMAIN r.body[1] : r.body[1][k] = " "
             expected == IF blank
                         THEN <<"Request failed with ">> \o ToStr(r.status)
                              \o <<" ">> \o r.statusText
                         ELSE r.body[1]
         IN /\ pipe[id].pc = "done"
            /\ pipe[id].transfers = 0
            /\ pipe[id].grants = 1
            /\ InQueue(items, id) =>
                 /\ ItemOf(items, id).status = "error"
                 /\ ItemOf(items, id).error = <<expected>>
  /\ (\A id \in Ids : ~reported[id].confirmed) => (~notified /\ delivered = << >>)

\* C12's case: a grant was refused with a blank error string, the item is
\* in the queue, an observer is set, every update has been rendered and no
\* item has succeeded.
C12_Witness ==
  /\ \E id \in Ids :
       /\ pipe[id].refused # << >>
       /\ pipe[id].refused[1].status = 500
       /\ InQueue(items, id)
       /\ ItemOf(items, id).status = "error"
  /\ observer # 0
  /\ ~pendingRender
  /\ \A id \in Ids : ~reported[id].confirmed

\* C13: when every grant request and every transfer request is eventually
\* answered or fails, every item that was enqueued is eventually removed
\* from the queue or in success or error, whatever the number of items and
\* the maxParallelUploads option (1 with two items included).
C13_EveryItemSettles ==
  \A id \in Ids :
    <>(id < nextId) =>
      <>(/\ id < nextId
         /\ InQueue(items, id) => /\ ItemOf(items, id).status \in Terminal
                                  /\ pipe[id].pc = "done")

\* C13's case: two files were enqueued in one call with maxParallelUploads
\* 1, and both are in the queue in a terminal status.
C13_Witness ==
  /\ maxParallelUploads = 1
  /\ Len(runs) = 1
  /\ Len(runs[1].entries) = 2
  /\ Len(items) = 2
  /\ \A i \in DOMAIN items : items[i].status \in Terminal

\* C14: when the runtime refuses the streamed request of an item, exactly
\* one buffered request is issued as fallback; when the fallback is answered
\* with a success status the item is in success at progress 100, and when it
\* is answered with another status or throws the item is in error, without
\* a further request; no item ever has more than two transfer requests.
C14_OneFallback ==
  /\ [][\A id \in Ids :
          /\ (pipe[id].pc = "streamed" /\ ~pipe[id].consumer
                 /\ pipe'[id].pc # "streamed") =>
               /\ pipe'[id].pc = "fallback"
               /\ pipe[id].transfers = 1
               /\ pipe'[id].transfers = 2
          /\ (pipe[id].pc = "fallback" /\ pipe'[id].pc # "fallback") =>
               /\ pipe'[id].pc = "done"
               /\ pipe'[id].transfers = 2
               /\ InQueue(items', id) =>
                    IF reported'[id].confirmed
                    THEN /\ ItemOf(items', id).status = "success"
                         /\ ItemOf(items', id).progress = 100
                    ELSE ItemOf(items', id).status = "error"]_vars
  /\ [](\A id \in Ids : pipe[id].transfers <= 2)

\* C14's case: the runtime refused the streamed request, the fallback
\* failed, and the item is in error after two transfer requests.
C14_Witness ==
  \E id \in Ids :
    /\ ~runtime.duplex
    /\ pipe[id].pc = "done"
    /\ pipe[id].transfers = 2
    /\ ~reported[id].confirmed
    /\ InQueue(items, id)
    /\ ItemOf(items, id).status = "error"

\* C15: when the streamed request of an item fails after the request has
\* started to consume the stream (a network failure, not a runtime that
\* refuses streamed bodies), the item is in error and no second transfer
\* request is issued for it.
C15_NetworkFailureNoRetry ==
  [][\A id \in Ids :
       (/\ pipe[id].pc = "streamed"
        /\ pipe[id].consumer
        /\ pipe[id].uploadedBytes > 0
        /\ pipe'[id].pc # "streamed"
        /\ ~reported'[id].confirmed) =>
         /\ pipe'[id].pc = "done"
         /\ pipe'[id].transfers = 1
         /\ InQueue(items', id) => ItemOf(items', id).status = "error"]_vars

\* C16: when an item's grant or transfer fails, the worker that processed it
\* claims the next unclaimed entry of its run (or ends, when there is none),
\* every other item and pipeline stays as it was, and in every state the
\* number of a run's live workers is the number of its entries in flight,
\* so that a run whose entries are all done has no worker left.
C16_FailureStaysInItem ==
  /\ [][\A id \in Ids :
          (pipe[id].pc \notin {"none", "unclaimed", "done"}
             /\ pipe'[id].pc = "done" /\ ~reported'[id].confirmed) =>
            LET run == runs[pipe[id].run]
                more == run.nextIndex < Len(run.entries)
                next == run.entries[run.nextIndex + 1]
            IN /\ more => /\ pipe[next].pc = "unclaimed"
                          /\ pipe'[next].pc = "grant"
                          /\ runs'[pipe[id].run].nextIndex = run.nextIndex + 1
                          /\ runs'[pipe[id].run].workers = run.workers
                          /\ InQueue(items, next) =>
                               ItemOf(items', next).status = "signing"
               /\ ~more => runs'[pipe[id].run].workers = run.workers - 1
               /\ \A other \in Ids \ {id} :
                    (~more \/ other # next) =>
                      /\ pipe'[other] = pipe[other]
                      /\ InQueue(items, other) =>
                           ItemOf(items', other) = ItemOf(items, other)]_vars
  /\ [](\A r \in DOMAIN runs :
          runs[r].workers =
            Cardinality({k \in DOMAIN runs[r].entries :
                           pipe[runs[r].entries[k]].pc \notin {"unclaimed", "done"}}))

\* C16's case: of two files enqueued in one call with maxParallelUploads 1,
\* the first failed and the second succeeded after it; the run has ended.
C16_Witness ==
  /\ maxParallelUploads = 1
  /\ Len(runs) = 1
  /\ Len(runs[1].entries) = 2
  /\ runs[1].workers = 0
  /\ ~reported[runs[1].entries[1]].confirmed
  /\ reported[runs[1].entries[2]].confirmed
  /\ Len(items) = 2
  /\ items[1].status = "error"
  /\ items[2].status = "success"

C18_ClearFinishedFrame ==
  [][ClearFinished =>
       LET gone == {id \in Ids : InQueue(items, id)
                                  /\ ItemOf(items, id).status \in Terminal}
           pos(id) == CHOOSE i \in DOMAIN items : items[i].id = id
       IN /\ Len(items') = Len(items) - Cardinality(gone)
          /\ \A id \in Ids :
               /\ InQueue(items', id) <=> (InQueue(items, id) /\ id \notin gone)
               /\ InQueue(items', id) => ItemOf(items', id) = ItemOf(items, id)
               /\ revoked'[id] =
                    revoked[id] + (IF id \in gone /\ ItemOf(items, id).previewUrl # << >>
                                   THEN 1 ELSE 0)
               /\ id \in previewMap' <=> (id \in previewMap /\ id \notin gone)
          /\ \A i, j \in DOMAIN items' :
               i < j => pos(items'[i].id) < pos(items'[j].id)]_vars

\* C18's case: clearFinished has taken a failed image item out of the
\* queue, and an image item that is in flight is still there, its preview
\* registered and not revoked.
C18_Witness ==
  /\ \E id \in Ids :
       /\ id < nextId
       /\ ~InQueue(items, id)
       /\ ~reported[id].confirmed
       /\ revoked[id] = 1
  /\ \E id \in Ids :
       /\ InQueue(items, id)
       /\ ItemOf(items, id).status \in {"signing", "uploading"}
       /\ ItemOf(items, id).previewUrl # << >>
       /\ id \in previewMap
       /\ revoked[id] = 0

\* C19: after the unmount no preview is registered any more, and every
\* preview URL that was created has been revoked, whatever the status of
\* its item.
C19_UnmountReleasesAll ==
  ~mounted =>
    /\ previewMap = {}
    /\ \A id \in Ids : (id < nextId /\ IsImage(pipe[id].file)) => revoked[id] = 1

\* C19's case: the component unmounted with an image item in flight and a
\* finished one in the queue.
C19_Witness ==
  /\ ~mounted
  /\ \E id \in Ids :
       /\ InQueue(items, id)
       /\ ItemOf(items, id).status \in {"signing", "uploading"}
       /\ revoked[id] = 1
  /\ \E id \in Ids :
       /\ InQueue(items, id)
       /\ ItemOf(items, id).status \in Terminal
       /\ revoked[id] = 1

C21_EachEntryClaimedOnce ==
  /\ [](\A r \in DOMAIN runs : \A k \in DOMAIN runs[r].entries :
          /\ pipe[runs[r].entries[k]].grants = (IF k <= runs[r].nextIndex THEN 1 ELSE 0)
          /\ (pipe[runs[r].entries[k]].pc = "unclaimed") <=> (k > runs[r].nextIndex))
  /\ [][\A r \in DOMAIN runs :
          /\ runs'[r].entries = runs[r].entries
          /\ runs'[r].nextIndex \in {runs[r].nextIndex, runs[r].nextIndex + 1}]_vars

\* C21's case: in a run of three entries with two workers the second
\* entry's call completed before the first's, and its worker claimed the
\* third entry.
C21_Witness ==
  \E r \in DOMAIN runs :
    /\ Len(runs[r].entries) = 3
    /\ maxParallelUploads = 2
    /\ pipe[runs[r].entries[1]].pc = "grant"
    /\ pipe[runs[r].entries[2]].pc = "done"
    /\ pipe[runs[r].entries[3]].pc = "buffered"

\* C22: removing an item whose grant or transfer is in flight revokes its
\* preview and takes it out of the queue; the steps its pipeline takes
\* afterwards leave the queue's length and every item as they were (but for
\* the entry the worker claims next), the item does not come back, and the
\* lists the observer is given hold items of the queue only.
C22_RemovedItemStaysGone ==
  /\ [][\A id \in Ids :
          /\ (InQueue(items, id) /\ ~InQueue(items', id)
                 /\ pipe[id].pc \in {"grant", "streamed", "fallback", "buffered"}) =>
               /\ pipe'[id] = pipe[id]
               /\ ItemOf(items, id).previewUrl # << >> =>
                    (revoked'[id] = revoked[id] + 1 /\ id \notin previewMap')
          /\ (id < nextId /\ ~InQueue(items, id)) => ~InQueue(items', id)
          /\ (id < nextId /\ ~InQueue(items, id) /\ pipe[id].pc # "unclaimed"
                 /\ pipe'[id] # pipe[id]) =>
               /\ Len(items') = Len(items)
               /\ \A i \in DOMAIN items :
                    \/ items'[i] = items[i]
                    \/ /\ pipe[items[i].id].pc = "unclaimed"
                       /\ pipe'[items[i].id].pc = "grant"
                       /\ items'[i] = SigningUpdate(items[i])]_vars
  /\ [][notified' # notified =>
          \A k \in DOMAIN delivered' :
            \E i \in DOMAIN items :
              /\ items[i].status = "success"
              /\ items[i].objectName = <<delivered'[k].objectName>>]_vars

\* C22's case: an item is out of the queue with its preview revoked while
\* its transfer is in flight, and the observer holds the list of the other
\* item's upload.
C22_Witness ==
  \E id \in Ids :
    /\ id < nextId
    /\ ~InQueue(items, id)
    /\ revoked[id] = 1
    /\ pipe[id].pc = "streamed"
    /\ Len(delivered) = 1
    /\ delivered = uploadedFiles(items)
    /\ ~pendingRender

\* C23: addFiles appends: every item that enters the queue stands after
\* all the items that were in the queue before, and the new items stand in
\* the order of the input files.
C23_AddFilesAppends ==
  [][\A i \in DOMAIN items' :
       ~InQueue(items, items'[i].id) =>
         \A j \in DOMAIN items' :
           /\ InQueue(items, items'[j].id) => j < i
           /\ (~InQueue(items, items'[j].id) /\ j < i) => items'[j].id < items'[i].id]_vars

\* C24: an addFiles call creates one item per input file, each under an id
\* not handed out before, starts one pool run over them, and leaves every
\* item that was in the queue there with all its fields (a failed item whose
\* file is enqueued again included); a call with an empty list changes
\* nothing and starts no run.
C24_AddFilesOnlyAdds ==
  /\ [][nextId' # nextId =>
          /\ Len(items') = Len(items) + (nextId' - nextId)
          /\ {id \in Ids : InQueue(items', id) /\ ~InQueue(items, id)}
               = nextId..(nextId' - 1)
          /\ \A id \in Ids :
               InQueue(items, id) =>
                 (InQueue(items', id) /\ ItemOf(items', id) = ItemOf(items, id))
          /\ Len(runs') = Len(runs) + 1
          /\ Len(runs'[Len(runs')].entries) = nextId' - nextId]_vars
  /\ [][AddFiles(<< >>) => UNCHANGED vars]_vars
  /\ [][(Len(runs') # Len(runs) \/ Len(items') > Len(items)) => nextId' > nextId]_vars

\* C24's case: a file whose item is in error was enqueued again: the queue
\* holds the failed item and a second item of the same file under another
\* id, whose grant is being requested.
C24_Witness ==
  /\ Len(items) = 2
  /\ Len(runs) = 2
  /\ items[1].file = items[2].file
  /\ items[1].id # items[2].id
  /\ items[2].status = "error"
  /\ items[2].error # << >>
  /\ items[1].status = "signing"

\* C25: in every state the two counts the hook exposes are the number of
\* items that are queued, signing or uploading, and the number of items in
\* success.
C25_AggregateCounts ==
  /\ activeUploads(items) =
       Cardinality({i \in DOMAIN items :
                      items[i].status \in {"queued", "signing", "uploading"}})
  /\ successCount(items) =
       Cardinality({i \in DOMAIN items : items[i].status \notin
                      {"queued", "signing", "uploading", "error"}})

\* C26: the signing endpoint answers a request whose x-user-id header is
\* missing or blank with 401 and the error "Missing authentication context",
\* whatever its body, and never with 200; it answers an authenticated
\* request whose body is not JSON or not a valid payload with 400, and every
\* other request it does not grant with 500; every answer but 200 carries
\* an error string.
C26_EndpointStatuses ==
  server.request # << >> =>
    LET request == server.request[1]
        response == server.response[1]
        blank == \/ request.header = << >>
                 \/ \A k \in DOMAIN request.header[1] : request.header[1][k] = " "
        isText(field) == /\ field # << >>
                         /\ field[1].isString
                         /\ field[1].chars \in 1..255
        malformed == request.body.kind = "malformed"
        invalid == ~(/\ request.body.isObject
                     /\ isText(request.body.fileName)
                     /\ isText(request.body.contentType))
    IN /\ blank => /\ response.status = 401
                   /\ response.error = << <<"Missing authentication context">> >>
       /\ (~blank /\ (malformed \/ invalid)) => response.status = 400
       /\ (~blank /\ ~malformed /\ ~invalid) => response.status \in {200, 500}
       /\ response.status # 200 =>
            (response.error # << >> /\ Len(response.error[1]) > 0
               /\ response.grant = << >>)
       /\ response.status = 200 => response.grant # << >>

\* max(1, min(c, n)), case by case.
ExpectedWorkers(n) ==
  IF maxParallelUploads < 1 THEN 1
  ELSE IF maxParallelUploads < n THEN maxParallelUploads ELSE n

\* C27: a pool run over n entries with the option at c starts
\* max(1, min(c, n)) workers, each with one entry, and never has more calls
\* of the worker function in flight than that; with c at 0 it starts one
\* worker; over an empty list no entry is passed to the worker function.
C27_WorkersOfARun ==
  /\ [][Len(runs') > Len(runs) =>
          LET r == Len(runs')
              started == {k \in DOMAIN runs'[r].entries :
                            pipe'[runs'[r].entries[k]].pc = "grant"}
          IN /\ runs'[r].workers = ExpectedWorkers(Len(runs'[r].entries))
             /\ Cardinality(started) = ExpectedWorkers(Len(runs'[r].entries))]_vars
  /\ [](\A r \in DOMAIN runs :
          Cardinality({k \in DOMAIN runs[r].entries :
                         pipe[runs[r].entries[k]].pc \notin {"unclaimed", "done"}})
            <= ExpectedWorkers(Len(runs[r].entries)))
  /\ [](StartWorkers(items, << >>, Workers(maxParallelUploads, 0)) = items)

\* C27's case: with the option at 0 a run of three entries has been
\* drained by its one worker.
C27_Witness ==
  \E r \in DOMAIN runs :
    /\ maxParallelUploads = 0
    /\ Len(runs[r].entries) = 3
    /\ runs[r].workers = 0
    /\ \A k \in DOMAIN runs[r].entries : pipe[runs[r].entries[k]].pc = "done"

\* C28: in a pool run, the step in which a worker's item finishes (in
\* success or in error) is the step in which it claims the next unclaimed
\* entry; a worker ends only in a step that finds the cursor at the end of
\* the list, so that fewer workers than were started means no unclaimed
\* entry; and the run has no worker left only when every entry's call has
\* completed.
C28_WorkersDrainTheList ==
  /\ [][\A id \in Ids :
          (pipe[id].pc \notin {"none", "unclaimed", "done"} /\ pipe'[id].pc = "done") =>
            LET r == pipe[id].run
            IN IF runs[r].nextIndex < Len(runs[r].entries)
               THEN /\ runs'[r].nextIndex = runs[r].nextIndex + 1
                    /\ runs'[r].workers = runs[r].workers
                    /\ pipe'[runs[r].entries[runs[r].nextIndex + 1]].pc = "grant"
               ELSE /\ runs'[r].nextIndex = runs[r].nextIndex
                    /\ runs'[r].workers = runs[r].workers - 1]_vars
  /\ [](\A r \in DOMAIN runs :
          /\ runs[r].workers < ExpectedWorkers(Len(runs[r].entries)) =>
               runs[r].nextIndex = Len(runs[r].entries)
          /\ runs[r].workers = 0 <=>
               \A k \in DOMAIN runs[r].entries : pipe[runs[r].entries[k]].pc = "done")

\* C28's case: the one worker of a run of three entries has finished its
\* first item in error and its second in success, and is at its third.
C28_Witness ==
  \E r \in DOMAIN runs :
    /\ maxParallelUploads = 1
    /\ Len(runs[r].entries) = 3
    /\ runs[r].workers = 1
    /\ pipe[runs[r].entries[1]].pc = "done"
    /\ ~reported[runs[r].entries[1]].confirmed
    /\ pipe[runs[r].entries[2]].pc = "done"
    /\ reported[runs[r].entries[2]].confirmed
    /\ pipe[runs[r].entries[3]].pc = "buffered"

\* The transforms the keyed update is tried with.
SampleUpdaters ==
  { [kind |-> "signing"],
    [kind |-> "uploading", signed |-> SignedFor(1)],
    [kind |-> "progress", progress |-> 50],
    [kind |-> "success", signed |-> SignedFor(2)],
    [kind |-> "error", message |-> <<"x">>] }

\* C29: on every reachable queue the keyed update for an id changes only
\* the item with that id, which becomes the transform of the stored item;
\* the number, the ids and the order of the items stay; the update is
\* without effect when no item has the id; and two updates for different
\* ids give the same queue in either order.
C29_KeyedUpdateFrame ==
  \A id \in Ids, u \in SampleUpdaters :
    LET r == updateItem(items, id, u)
    IN /\ Len(r) = Len(items)
       /\ \A i \in DOMAIN items :
            /\ r[i].id = items[i].id
            /\ items[i].id # id => r[i] = items[i]
            /\ items[i].id = id => r[i] = Apply(u, items[i])
       /\ ~InQueue(items, id) => r = items
       /\ \A other \in Ids \ {id}, v \in SampleUpdaters :
            updateItem(r, other, v) = updateItem(updateItem(items, other, v), id, u)

\* C29's case: of two items in the queue, one failed after its progress
\* callback had stored 99, and is in error at 99; the other is in flight.
C29_Witness ==
  /\ Len(items) = 2
  /\ \E i \in DOMAIN items : items[i].status = "error" /\ items[i].progress = 99
  /\ \E i \in DOMAIN items : items[i].status = "uploading" /\ items[i].progress = 10

\* The values of the stored progress the two transitions are tried on.
SampleProgress == {0, 3, 5, 7, 10, 50, 100}

\* C30: the transition from queued to signing stores the larger of the
\* previous progress and 5 and clears the error; the transition from
\* signing to uploading stores the larger of the previous progress and 10
\* and the grant's objectName and publicUrl; neither lowers the progress.
\* This holds of the transitions the queue takes, and of the two transforms
\* on every item of the queue with any previous progress and an error set.
C30_ProgressFloors ==
  /\ [][\A id \in Ids :
          /\ (InQueue(items, id) /\ InQueue(items', id)
                 /\ ItemOf(items, id).status = "queued"
                 /\ ItemOf(items', id).status = "signing") =>
               /\ ItemOf(items', id).progress =
                    (IF ItemOf(items, id).progress < 5 THEN 5
                     ELSE ItemOf(items, id).progress)
               /\ ItemOf(items', id).error = << >>
          /\ (InQueue(items, id) /\ InQueue(items', id)
                 /\ ItemOf(items, id).status = "signing"
                 /\ ItemOf(items', id).status = "uploading") =>
               /\ ItemOf(items', id).progress =
                    (IF ItemOf(items, id).progress < 10 THEN 10
                     ELSE ItemOf(items, id).progress)
               /\ pipe'[id].signed # << >>
               /\ ItemOf(items', id).objectName = <<pipe'[id].signed[1].objectName>>
               /\ ItemOf(items', id).publicUrl = <<pipe'[id].signed[1].publicUrl>>
          /\ (~InQueue(items, id) /\ InQueue(items', id)
                 /\ ItemOf(items', id).status = "signing") =>
               /\ ItemOf(items', id).progress = 5
               /\ ItemOf(items', id).error = << >>]_vars
  /\ [](\A i \in DOMAIN items, p \in SampleProgress :
          LET before == [items[i] EXCEPT !.progress = p, !.error = << <<"e">> >>]
              signing == SigningUpdate(before)
              uploading == UploadingUpdate(before, SignedFor(items[i].id))
          IN /\ signing.status = "signing"
             /\ signing.progress = (IF p < 5 THEN 5 ELSE p)
             /\ signing.error = << >>
             /\ uploading.status = "uploading"
             /\ uploading.progress = (IF p < 10 THEN 10 ELSE p)
             /\ uploading.objectName = <<ObjectNameOf(items[i].id)>>
             /\ uploading.publicUrl = <<PublicUrlOf(ObjectNameOf(items[i].id))>>
             /\ uploading.error = before.error)

\* C30's case: the one worker of a run of two entries has finished the
\* first and marked the second, which was queued, as signing at 5; then its
\* grant arrived and the item is uploading at 10 with the grant's names.
C30_Witness ==
  /\ maxParallelUploads = 1
  /\ Len(runs) = 1
  /\ Len(runs[1].entries) = 2
  /\ pipe[runs[1].entries[1]].pc = "done"
  /\ InQueue(items, runs[1].entries[2])
  /\ ItemOf(items, runs[1].entries[2]).status = "uploading"
  /\ ItemOf(items, runs[1].entries[2]).progress = 10
  /\ ItemOf(items, runs[1].entries[2]).objectName = <<ObjectNameOf(runs[1].entries[2])>>

\* C31: objectName and publicUrl of an item are unset while the item is
\* queued or signing; they are set in the step from signing to uploading, to
\* the names of the item's grant; once set they stay as they are in every
\* later state of the item (progress updates, success, error).
C31_NamesSetOnceAtUploading ==
  /\ [](\A i \in DOMAIN items :
          /\ items[i].status \in {"queued", "signing"} =>
               items[i].objectName = << >> /\ items[i].publicUrl = << >>
          /\ (items[i].objectName = << >>) = (items[i].publicUrl = << >>))
  /\ [][\A id \in Ids :
          (InQueue(items, id) /\ InQueue(items', id)) =>
            LET before == ItemOf(items, id)
                after == ItemOf(items', id)
            IN /\ (before.objectName = << >> /\ after.objectName # << >>) =>
                    /\ before.status = "signing"
                    /\ after.status = "uploading"
                    /\ pipe'[id].signed = <<SignedFor(id)>>
                    /\ after.objectName = <<pipe'[id].signed[1].objectName>>
                    /\ after.publicUrl = <<pipe'[id].signed[1].publicUrl>>
               /\ (before.status = "signing" /\ after.status = "uploading") =>
                    after.objectName # << >>
               /\ before.objectName # << >> =>
                    /\ after.objectName = before.objectName
                    /\ after.publicUrl = before.publicUrl]_vars

\* C31's case: an item whose grant arrived went through a progress update
\* and then failed; it is in error and still carries the grant's names.
C31_Witness ==
  \E i \in DOMAIN items :
    /\ items[i].status = "error"
    /\ items[i].progress > 10
    /\ reported[items[i].id].last > 0
    /\ items[i].objectName = <<ObjectNameOf(items[i].id)>>
    /\ items[i].publicUrl = <<PublicUrlOf(ObjectNameOf(items[i].id))>>

\* C32: in every reachable state an item carries an error message only if
\* its status is error: no item that is queued, signing, uploading or
\* success has its error field set.
C32_ErrorOnlyInError ==
  \A i \in DOMAIN items : items[i].error # << >> => items[i].status = "error"

\* C33: for an empty file, and for any file in a runtime without
\* File.stream, exactly one buffered transfer request is issued and no
\* streamed one, and there is no fallback attempt; the progress callback is
\* invoked with no value but 100, and only when that request has returned
\* success; so the stored progress goes 0, 5, 10, 100 on success and stays at
\* 10 when the transfer fails.
C33_BufferedOnly ==
  /\ [](\A id \in Ids :
          (id < nextId /\ (pipe[id].file.size = 0 \/ ~runtime.fileStream)) =>
            /\ pipe[id].pc \in {"unclaimed", "grant", "buffered", "done"}
            /\ pipe[id].transfers =
                 (IF pipe[id].pc = "buffered" \/ (pipe[id].pc = "done" /\ pipe[id].signed # << >>)
                  THEN 1 ELSE 0)
            /\ ~pipe[id].streamOpen
            /\ pipe[id].uploadedBytes = 0
            /\ reported[id].last = 0
            /\ reported[id].hundreds = (IF reported[id].confirmed THEN 1 ELSE 0)
            /\ reported[id].confirmed => pipe[id].pc = "done" /\ pipe[id].transfers = 1
            /\ InQueue(items, id) =>
                 LET item == ItemOf(items, id)
                 IN /\ item.status = "queued" => item.progress = 0
                    /\ item.status = "signing" => item.progress = 5
                    /\ item.status = "uploading" => item.progress = 10
                    /\ item.status = "success" =>
                         item.progress = 100 /\ reported[id].confirmed
                    /\ item.status = "error" =>
                         /\ ~reported[id].confirmed
                         /\ item.progress = (IF pipe[id].transfers = 1 THEN 10 ELSE 5))
  /\ [][\A id \in Ids :
          (InQueue(items, id) /\ InQueue(items', id)
             /\ (pipe[id].file.size = 0 \/ ~runtime.fileStream)
             /\ ItemOf(items', id).progress # ItemOf(items, id).progress) =>
            <<ItemOf(items, id).progress, ItemOf(items', id).progress>>
              \in {<<0, 5>>, <<5, 10>>, <<10, 100>>}]_vars

\* C33's case: an empty file in a runtime that has File.stream; its one
\* buffered request was answered 403, and the item is in error at 10 with
\* nothing reported.
C33_Witness ==
  \E i \in DOMAIN items :
    /\ runtime.fileStream
    /\ items[i].file.size = 0
    /\ items[i].status = "error"
    /\ items[i].error = <<GcsFailureMessage(403)>>
    /\ items[i].progress = 10
    /\ pipe[items[i].id].transfers = 1
    /\ reported[items[i].id] = NoReport

\* C34: when a transfer request, streamed or buffered, is answered with a
\* non-success status, the transfer fails with a message that carries the
\* status code and the item is put in error with it; no transfer request
\* follows, so a non-success answer to the streamed request does not start
\* the buffered fallback; and progress 100 is never reported for the item.
C34_RejectedTransferFails ==
  /\ [][\A id \in Ids, status \in env.transferFailures :
          (StreamedRejected(id, status) \/ BufferedRejected(id, status)) =>
            /\ pipe'[id].pc = "done"
            /\ pipe'[id].transfers = pipe[id].transfers
            /\ reported'[id] = reported[id]
            /\ InQueue(items, id) =>
                 /\ InQueue(items', id)
                 /\ ItemOf(items', id).status = "error"
                 /\ ItemOf(items', id).error = <<(<<"GCS upload failed with ">> \o ToStr(status))>>
                 /\ ItemOf(items', id).progress = ItemOf(items, id).progress]_vars
  /\ [](\A id \in Ids :
          (pipe[id].pc = "done" /\ ~reported[id].confirmed) =>
            /\ reported[id].hundreds = 0
            /\ reported[id].last < 100)
  /\ [][\A id \in Ids :
          pipe[id].pc = "done" =>
            /\ pipe'[id].pc = "done"
            /\ pipe'[id].transfers = pipe[id].transfers
            /\ reported'[id].confirmed = reported[id].confirmed]_vars

\* C34's case: a streamed request whose body was being sent was answered
\* 403; the item is in error with the status in its message, after exactly
\* one transfer request, at the progress the callback had stored.
C34_Witness ==
  \E i \in DOMAIN items :
    /\ runtime.duplex
    /\ items[i].file.size > 0
    /\ items[i].status = "error"
    /\ items[i].error = << <<"GCS upload failed with ", "4", "0", "3">> >>
    /\ pipe[items[i].id].pc = "done"
    /\ pipe[items[i].id].transfers = 1
    /\ reported[items[i].id].last > 0
    /\ reported[items[i].id].hundreds = 0

\* C35: for every item a pool has claimed the steps come in the order
\* authorize, transfer, report: exactly one grant request is issued for the
\* item; its first transfer request is issued only after the grant request
\* has returned success and the status has become uploading; and success is
\* recorded only after a transfer request has returned a success status.
C35_AuthorizeTransferReport ==
  /\ [](\A id \in Ids :
          /\ pipe[id].grants = (IF pipe[id].pc \in {"none", "unclaimed"} THEN 0 ELSE 1)
          /\ pipe[id].transfers >= 1 =>
               pipe[id].grants = 1 /\ pipe[id].signed = <<SignedFor(id)>>
          /\ reported[id].confirmed => pipe[id].transfers >= 1
          /\ (InQueue(items, id) /\ ItemOf(items, id).status = "success") =>
               reported[id].confirmed)
  /\ [][\A id \in Ids :
          /\ (pipe[id].transfers = 0 /\ pipe'[id].transfers >= 1) =>
               /\ pipe[id].pc = "grant"
               /\ pipe[id].grants = 1
               /\ pipe'[id].transfers = 1
               /\ pipe'[id].signed = <<SignedFor(id)>>
               /\ (InQueue(items, id) /\ mounted) =>
                    /\ ItemOf(items, id).status = "signing"
                    /\ ItemOf(items', id).status = "uploading"
          /\ (~reported[id].confirmed /\ reported'[id].confirmed) =>
               /\ pipe[id].pc \in {"streamed", "buffered", "fallback"}
               /\ pipe[id].transfers >= 1
               /\ pipe'[id].transfers = pipe[id].transfers
               /\ (InQueue(items, id) /\ mounted) =>
                    ItemOf(items', id).status = "success"
          /\ (InQueue(items, id) /\ InQueue(items', id)
                /\ ItemOf(items, id).status # "success"
                /\ ItemOf(items', id).status = "success") =>
               ~reported[id].confirmed /\ reported'[id].confirmed
          /\ pipe'[id].grants # pipe[id].grants =>
               pipe[id].grants = 0 /\ pipe'[id].grants = 1 /\ pipe'[id].pc = "grant"]_vars

\* C35's case: the one worker of a run of two entries took the first from
\* its grant through one transfer to success, then claimed the second, whose
\* grant has arrived and whose first transfer request is out.
C35_Witness ==
  /\ maxParallelUploads = 1
  /\ Len(runs) = 1
  /\ Len(runs[1].entries) = 2
  /\ LET first == runs[1].entries[1]
         second == runs[1].entries[2]
     IN /\ pipe[first].pc = "done"
        /\ pipe[first].grants = 1
        /\ pipe[first].transfers >= 1
        /\ reported[first].confirmed
        /\ InQueue(items, first) /\ ItemOf(items, first).status = "success"
        /\ pipe[second].grants = 1
        /\ pipe[second].transfers = 1
        /\ InQueue(items, second) /\ ItemOf(items, second).status = "uploading"

\* C36: removing an item that is still queued, not yet claimed by a worker,
\* withdraws it from further processing: afterwards no grant request and no
\* transfer request is issued for it and it does not occupy a worker of its
\* pool run.
C36_RemovedQueuedItemIsWithdrawn ==
  [][\A id \in Ids :
       (id < nextId /\ ~InQueue(items, id) /\ pipe[id].pc = "unclaimed") =>
         /\ pipe'[id].pc = "unclaimed"
         /\ pipe'[id].grants = 0
         /\ pipe'[id].transfers = 0]_vars

\* C37: before the teardown, after any sequence of enqueue, remove and
\* clear-finished operations interleaved with the pipelines' updates, the
\* ids registered in the preview map are exactly the ids of the items in the
\* queue that have a preview: no preview of a removed item stays registered
\* and no queued item's preview misses from the map.
C37_PreviewMapMatchesQueue ==
  mounted =>
    previewMap = {items[i].id : i \in {j \in DOMAIN items : items[j].previewUrl # << >>}}

\* C37's case: two images were enqueued; one was uploaded and has left the
\* queue, removed or cleared, with its preview revoked; the other is still
\* in flight in the queue, and it alone is registered.
C37_Witness ==
  /\ mounted
  /\ nextId = 3
  /\ Len(items) = 1
  /\ items[1].previewUrl # << >>
  /\ items[1].status \in {"signing", "uploading"}
  /\ previewMap = {items[1].id}
  /\ \E id \in Ids : id < nextId /\ ~InQueue(items, id) /\ revoked[id] = 1
                       /\ reported[id].confirmed

\* No request of the queue is out or still to come, and the last state
\* update has been rendered.
Quiescent ==
  /\ ~pendingRender
  /\ \A id \in Ids : pipe[id].pc \in {"none", "done"}

\* C38: when the uploader is embedded as a form field, after any sequence of
\* uploads, removals, clear-finished and form reset actions, the form field's
\* value equals the uploader's derived list of successful files once the
\* queue is quiescent; in particular the two do not stay out of sync after
\* the form is reset to the empty list while the uploader still holds
\* successful items.
C38_FieldFollowsUploadedFiles ==
  (mounted /\ Quiescent) => fieldValue = uploadedFiles(items)

=============================================================================
